---------------------------- MODULE Spec2Model ----------------------------
(***************************************************************************)
(* The render decision of the Azimuth Dashboard page                       *)
(* (webapp/src/pages/Dashboard.tsx).                                       *)
(*                                                                         *)
(* The component reads two queries (job config, dataset info), the query   *)
(* state (pipeline, searchString) and the two split cells owned by the     *)
(* "Pipeline Metrics" and "Smart Tag Analysis" sections; every event       *)
(* re-renders it.  The rendered output is kept in the variable view.       *)
(*                                                                         *)
(* A TypeScript value that may be undefined is modelled as a sequence of   *)
(* length at most one: <<>> is undefined, <<v>> is the value v.           *)
(***************************************************************************)
EXTENDS Naturals, Sequences, FiniteSets, TLC

VARIABLES
    config,                 \* data of getConfigEndpoint.useQuery
    configStatus,           \* "pending" | "fulfilled" | "rejected"
    datasetInfo,            \* data of getDatasetInfoEndpoint.useQuery
    error,                  \* error of getDatasetInfoEndpoint.useQuery
    isFetching,             \* isFetching of getDatasetInfoEndpoint.useQuery
    pipeline,               \* useQueryState().pipeline
    searchString,           \* useQueryState().searchString
    pipelineMetricsSplit,   \* useState cell of the Pipeline Metrics section
    smartTagsSplit,         \* useState cell of the Smart Tag Analysis section
    view                    \* what the last render returned

vars == <<config, configStatus, datasetInfo, error, isFetching, pipeline,
          searchString, pipelineMetricsSplit, smartTagsSplit, view>>

---------------------------------------------------------------------------
(* Bounds of the model *)

MaxPipelines == 2        \* longest config.pipelines list
MaxPipelineIndex == 1    \* largest selectable pipelineIndex
MaxEditableLen == 1      \* longest postprocessingEditable array

---------------------------------------------------------------------------
(* Values *)

undefined == <<>>

Defined(v) == <<v>>

IsDefined(o) == o # <<>>

ValueOf(o) == o[1]

\* utils/const: the split names in their fixed priority order
DATASET_SPLIT_NAMES == <<"eval", "train">>

\* utils/const: the fallback error text
UNKNOWN_ERROR == "Something went wrong."

\* useParams().jobId
jobId == "local"

SplitNameSet == {DATASET_SPLIT_NAMES[i] : i \in DOMAIN DATASET_SPLIT_NAMES}

BoolSeqs(n) == UNION {[1..k -> BOOLEAN] : k \in 0..n}

Optional(S) == {undefined} \cup {Defined(v) : v \in S}

DatasetInfos ==
    [availableDatasetSplits : [SplitNameSet -> BOOLEAN],
     similarityAvailable : BOOLEAN,
     perturbationTestingAvailable : BOOLEAN,
     postprocessingEditable : Optional(BoolSeqs(MaxEditableLen))]

Errors == [message : Optional({"", "Dataset not found"})]

Configs == [pipelines : Optional({[i \in 1..n |-> i - 1] : n \in 0..MaxPipelines})]

Pipelines == [pipelineIndex : Optional(0..MaxPipelineIndex)]

Digits == <<"0", "1", "2", "3", "4", "5", "6", "7", "8", "9">>

RECURSIVE DecimalText(_)
\* decimal text of a natural number
DecimalText(n) ==
    IF n < 10 THEN Digits[n + 1]
    ELSE DecimalText(n \div 10) \o Digits[(n % 10) + 1]

\* useQueryState: the query state of the URL, serialized again
constructSearchString(p) ==
    IF IsDefined(p.pipelineIndex)
    THEN "?pipeline_index=" \o DecimalText(ValueOf(p.pipelineIndex))
    ELSE ""

---------------------------------------------------------------------------
(* The render function *)

\* JavaScript template literal `${x}` of a possibly undefined string
Interpolate(o) == IF IsDefined(o) THEN ValueOf(o) ELSE "undefined"

\* utils/helpers
isPipelineSelected == IsDefined(pipeline.pipelineIndex)

\* Fault: the error test placed before the isFetching test
BranchErrorFirst ==
    IF IsDefined(error) \/ datasetInfo = undefined THEN "NoData"
    ELSE IF isFetching THEN "Loading"
    ELSE "Page"

\* if (isFetching) ... else if (error || datasetInfo === undefined) ... else
Branch ==
    IF isFetching THEN "Loading"
    ELSE IF IsDefined(error) \/ datasetInfo = undefined THEN "NoData"
    ELSE "Page"

\* Fault: error?.message ?? UNKNOWN_ERROR (an empty message is kept)
PlaceholderMessageNullish ==
    IF IsDefined(error) /\ IsDefined(ValueOf(error).message)
    THEN ValueOf(ValueOf(error).message)
    ELSE UNKNOWN_ERROR

\* error?.message || UNKNOWN_ERROR
PlaceholderMessage ==
    IF IsDefined(error)
          /\ IsDefined(ValueOf(error).message)
          /\ ValueOf(ValueOf(error).message) # ""
    THEN ValueOf(ValueOf(error).message)
    ELSE UNKNOWN_ERROR

RECURSIVE FindSplit(_)
\* Array.prototype.find over DATASET_SPLIT_NAMES from position i on
FindSplit(i) ==
    IF i > Len(DATASET_SPLIT_NAMES) THEN undefined
    ELSE IF ValueOf(datasetInfo).availableDatasetSplits[DATASET_SPLIT_NAMES[i]]
         THEN Defined(DATASET_SPLIT_NAMES[i])
         ELSE FindSplit(i + 1)

RECURSIVE FindLastSplit(_)
\* Fault: the last available split instead of the first (findLast)
FindLastSplit(i) ==
    IF i < 1 THEN undefined
    ELSE IF ValueOf(datasetInfo).availableDatasetSplits[DATASET_SPLIT_NAMES[i]]
         THEN Defined(DATASET_SPLIT_NAMES[i])
         ELSE FindLastSplit(i - 1)

LastAvailableDatasetSplit == FindLastSplit(Len(DATASET_SPLIT_NAMES))

\* Fault: a fallback to the first split name when none is available
FirstAvailableOrFirstName ==
    IF FindSplit(1) = undefined THEN Defined(DATASET_SPLIT_NAMES[1])
    ELSE FindSplit(1)

firstAvailableDatasetSplit == FindSplit(1)

ExplorationLink ==
    "/" \o jobId \o "/dataset_splits/" \o Interpolate(firstAvailableDatasetSplit)
        \o "/prediction_overview" \o searchString

Card(title, to, linkButtonText) ==
    [title |-> title, to |-> to, linkButtonText |-> linkButtonText]

DatasetWarnings ==
    Card("Dataset Warnings",
         "/" \o jobId \o "/dataset_warnings" \o searchString, undefined)

\* Fault: the similarityAvailable test left out
ShowClassOverlapTrainOnly ==
    ValueOf(datasetInfo).availableDatasetSplits["train"]

ShowClassOverlap ==
    /\ ValueOf(datasetInfo).availableDatasetSplits["train"]
    /\ ValueOf(datasetInfo).similarityAvailable

ClassOverlap ==
    Card("Class Overlap",
         "/" \o jobId \o "/dataset_splits/train/class_overlap" \o searchString,
         undefined)

\* Fault: the section left ungated
ShowPipelineMetricsAlways == TRUE

ShowPipelineMetrics == isPipelineSelected

\* Fault: length >= 1 instead of length > 1
CompareLabelAtLeastOne ==
    IF IsDefined(config)
          /\ IsDefined(ValueOf(config).pipelines)
          /\ Len(ValueOf(ValueOf(config).pipelines)) >= 1
    THEN Defined("Compare pipelines")
    ELSE undefined

CompareLabel ==
    IF IsDefined(config)
          /\ IsDefined(ValueOf(config).pipelines)
          /\ Len(ValueOf(ValueOf(config).pipelines)) > 1
    THEN Defined("Compare pipelines")
    ELSE undefined

\* Fault: the link built from the page's default split, not the section's own
PipelineMetricsToDefault ==
    "/" \o jobId \o "/dataset_splits/" \o Interpolate(firstAvailableDatasetSplit)
        \o "/pipeline_metrics" \o searchString

PipelineMetricsTo ==
    "/" \o jobId \o "/dataset_splits/" \o Interpolate(pipelineMetricsSplit)
        \o "/pipeline_metrics" \o searchString

PipelineMetrics ==
    Card("Pipeline Metrics by Data Subpopulation", PipelineMetricsTo, CompareLabel)

ShowSmartTagAnalysis == isPipelineSelected

SmartTagsTo ==
    "/" \o jobId \o "/dataset_splits/" \o Interpolate(smartTagsSplit)
        \o "/smart_tags" \o searchString

SmartTagAnalysis == Card("Smart Tag Analysis", SmartTagsTo, undefined)

\* Fault: the perturbationTestingAvailable test left out
ShowBehavioralTestingAnyDataset == isPipelineSelected

ShowBehavioralTesting ==
    /\ isPipelineSelected
    /\ ValueOf(datasetInfo).perturbationTestingAvailable

BehavioralTesting ==
    Card("Behavioral Testing",
         "/" \o jobId \o "/behavioral_testing_summary" \o searchString, undefined)

\* Fault: postprocessingEditable?.[index] !== false (absent counts as editable)
EditableUnlessFalse ==
    LET editable == ValueOf(datasetInfo).postprocessingEditable
        index == ValueOf(pipeline.pipelineIndex)
    IN  ~(/\ IsDefined(editable)
          /\ index + 1 \in DOMAIN ValueOf(editable)
          /\ ~ValueOf(editable)[index + 1])

\* datasetInfo.postprocessingEditable?.[pipeline.pipelineIndex]
EditableAtPipeline ==
    LET editable == ValueOf(datasetInfo).postprocessingEditable
        index == ValueOf(pipeline.pipelineIndex)
    IN  /\ IsDefined(editable)
        /\ index + 1 \in DOMAIN ValueOf(editable)
        /\ ValueOf(editable)[index + 1]

ShowPostprocessing ==
    /\ isPipelineSelected
    /\ ValueOf(datasetInfo).availableDatasetSplits["eval"]
    /\ EditableAtPipeline

Postprocessing ==
    Card("Post-processing Analysis",
         "/" \o jobId \o "/thresholds" \o searchString, undefined)

When(cond, card) == IF cond THEN <<card>> ELSE <<>>

Sections ==
    <<DatasetWarnings>>
        \o When(ShowClassOverlap, ClassOverlap)
        \o When(ShowPipelineMetrics, PipelineMetrics)
        \o When(ShowSmartTagAnalysis, SmartTagAnalysis)
        \o When(ShowBehavioralTesting, BehavioralTesting)
        \o When(ShowPostprocessing, Postprocessing)

Dashboard ==
    CASE Branch = "Loading" ->
            [kind |-> "Loading", message |-> undefined, header |-> FALSE,
             explorationLink |-> undefined, sections |-> <<>>]
      [] Branch = "NoData" ->
            [kind |-> "NoData", message |-> Defined(PlaceholderMessage),
             header |-> FALSE, explorationLink |-> undefined, sections |-> <<>>]
      [] OTHER ->
            [kind |-> "Page", message |-> undefined, header |-> TRUE,
             explorationLink |-> Defined(ExplorationLink), sections |-> Sections]

---------------------------------------------------------------------------
(* The split cells: React.useState(defaultDatasetSplitName) in each         *)
(* WithDatasetSplitNameState.  A cell exists while its section is rendered, *)
(* takes the default when the section is mounted and is dropped when the   *)
(* section is unmounted.                                                   *)

PipelineMetricsMounted == Branch = "Page" /\ ShowPipelineMetrics

SmartTagsMounted == Branch = "Page" /\ ShowSmartTagAnalysis

\* the re-render that follows every change of the inputs
Rerender ==
    /\ pipelineMetricsSplit' =
          IF ~PipelineMetricsMounted' THEN undefined
          ELSE IF PipelineMetricsMounted THEN pipelineMetricsSplit
          ELSE firstAvailableDatasetSplit'
    /\ smartTagsSplit' =
          IF ~SmartTagsMounted' THEN undefined
          ELSE IF SmartTagsMounted THEN smartTagsSplit
          ELSE firstAvailableDatasetSplit'
    /\ view' = Dashboard'

---------------------------------------------------------------------------
(* Initial state: first render, both queries just started *)

Init ==
    /\ config = undefined
    /\ configStatus = "pending"
    /\ datasetInfo = undefined
    /\ error = undefined
    /\ isFetching = TRUE
    /\ pipeline \in Pipelines
    /\ searchString = constructSearchString(pipeline)
    /\ pipelineMetricsSplit = undefined
    /\ smartTagsSplit = undefined
    /\ view = Dashboard

---------------------------------------------------------------------------
(* Events *)

DatasetInfoFetchStart ==
    /\ ~isFetching
    /\ isFetching' = TRUE
    /\ UNCHANGED <<config, configStatus, datasetInfo, error, pipeline, searchString>>
    /\ Rerender

DatasetInfoFulfilled ==
    /\ isFetching
    /\ \E d \in Optional(DatasetInfos) : datasetInfo' = d
    /\ error' = undefined
    /\ isFetching' = FALSE
    /\ UNCHANGED <<config, configStatus, pipeline, searchString>>
    /\ Rerender

DatasetInfoRejected ==
    /\ isFetching
    /\ \E e \in Errors : error' = Defined(e)
    /\ isFetching' = FALSE
    /\ UNCHANGED <<config, configStatus, datasetInfo, pipeline, searchString>>
    /\ Rerender

ConfigFetchStart ==
    /\ configStatus # "pending"
    /\ configStatus' = "pending"
    /\ UNCHANGED <<config, datasetInfo, error, isFetching, pipeline, searchString>>
    /\ Rerender

ConfigFulfilled ==
    /\ configStatus = "pending"
    /\ \E c \in Configs : config' = Defined(c)
    /\ configStatus' = "fulfilled"
    /\ UNCHANGED <<datasetInfo, error, isFetching, pipeline, searchString>>
    /\ Rerender

ConfigRejected ==
    /\ configStatus = "pending"
    /\ configStatus' = "rejected"
    /\ UNCHANGED <<config, datasetInfo, error, isFetching, pipeline, searchString>>
    /\ Rerender

QueryStateChange ==
    /\ \E p \in Pipelines :
          /\ p # pipeline
          /\ pipeline' = p
          /\ searchString' = constructSearchString(p)
    /\ UNCHANGED <<config, configStatus, datasetInfo, error, isFetching>>
    /\ Rerender

SetPipelineMetricsSplit ==
    /\ PipelineMetricsMounted
    /\ \E s \in SplitNameSet : pipelineMetricsSplit' = Defined(s)
    /\ UNCHANGED <<config, configStatus, datasetInfo, error, isFetching,
                   pipeline, searchString, smartTagsSplit>>
    /\ view' = Dashboard'

SetSmartTagsSplit ==
    /\ SmartTagsMounted
    /\ \E s \in SplitNameSet : smartTagsSplit' = Defined(s)
    /\ UNCHANGED <<config, configStatus, datasetInfo, error, isFetching,
                   pipeline, searchString, pipelineMetricsSplit>>
    /\ view' = Dashboard'

Next ==
    \/ DatasetInfoFetchStart
    \/ DatasetInfoFulfilled
    \/ DatasetInfoRejected
    \/ ConfigFetchStart
    \/ ConfigFulfilled
    \/ ConfigRejected
    \/ QueryStateChange
    \/ SetPipelineMetricsSplit
    \/ SetSmartTagsSplit

Spec == Init /\ [][Next]_vars

---------------------------------------------------------------------------
(* Vocabulary of the properties *)

Loaded == ~isFetching /\ error = undefined /\ datasetInfo # undefined

Available(name) == ValueOf(datasetInfo).availableDatasetSplits[name]

SomeSplitAvailable == \E name \in SplitNameSet : Available(name)

Rendered(v, title) == \E i \in DOMAIN v.sections : v.sections[i].title = title

SectionOf(v, title) ==
    v.sections[CHOOSE i \in DOMAIN v.sections : v.sections[i].title = title]

Shown(title) == Rendered(view, title)

SplitPath(split, page) ==
    "/" \o jobId \o "/dataset_splits/" \o split \o "/" \o page \o searchString

\* the render decision without the link labels of its sections
WithoutLabels(v) ==
    [v EXCEPT !.sections =
        [i \in DOMAIN v.sections |->
            [title |-> v.sections[i].title, to |-> v.sections[i].to]]]

---------------------------------------------------------------------------
(* C1: while the dataset-info fetch is in flight the render decision is the *)
(* loading indicator alone: no header, no link, no message, no section,     *)
(* whatever the job config, the pipeline selection and the held data or     *)
(* error are.                                                               *)
C1_LoadingOnly ==
    isFetching =>
        /\ view.kind = "Loading"
        /\ ~view.header
        /\ view.explorationLink = undefined
        /\ view.message = undefined
        /\ view.sections = <<>>

C1_Witness ==
    /\ isFetching
    /\ datasetInfo # undefined
    /\ error # undefined
    /\ configStatus = "fulfilled"
    /\ isPipelineSelected
    /\ view.kind = "Loading"

(* C2: when the dataset-info fetch is not in flight and it failed or        *)
(* returned no data, the render decision is the placeholder without header  *)
(* or section; its text is the error's message when that is a non-empty     *)
(* string and UNKNOWN_ERROR otherwise; an error wins over held data.        *)
C2_Placeholder ==
    (~isFetching /\ (error # undefined \/ datasetInfo = undefined)) =>
        /\ view.kind = "NoData"
        /\ ~view.header
        /\ view.explorationLink = undefined
        /\ view.sections = <<>>
        /\ \A m \in {"Dataset not found"} :
              (error = Defined([message |-> Defined(m)]))
                  => view.message = Defined(m)
        /\ (\/ error = undefined
            \/ error = Defined([message |-> undefined])
            \/ error = Defined([message |-> Defined("")]))
                  => view.message = Defined(UNKNOWN_ERROR)

C2_Witness ==
    /\ ~isFetching
    /\ datasetInfo # undefined
    /\ error = Defined([message |-> Defined("Dataset not found")])
    /\ view.message = Defined("Dataset not found")

(* C3: with at least one available split, the 'Go to exploration space'    *)
(* link targets the first name of DATASET_SPLIT_NAMES, in its order, whose  *)
(* availability is true; and a render that follows with the same dataset    *)
(* info and search string yields the same link.                             *)
C3_FirstSplitInOrder ==
    (Loaded /\ SomeSplitAvailable) =>
        \E i \in DOMAIN DATASET_SPLIT_NAMES :
            /\ Available(DATASET_SPLIT_NAMES[i])
            /\ \A j \in 1..(i - 1) : ~Available(DATASET_SPLIT_NAMES[j])
            /\ view.explorationLink =
                  Defined(SplitPath(DATASET_SPLIT_NAMES[i], "prediction_overview"))

C3_StableAcrossRenders ==
    (/\ Loaded /\ Loaded'
     /\ datasetInfo' = datasetInfo
     /\ searchString' = searchString)
        => view'.explorationLink = view.explorationLink

C3_FirstAvailableSplit ==
    [](C3_FirstSplitInOrder) /\ [][C3_StableAcrossRenders]_vars

C3_Witness ==
    /\ Loaded
    /\ Available("eval") /\ Available("train")
    /\ view.explorationLink = Defined(SplitPath("eval", "prediction_overview"))

(* C4: in the loaded state 'Class Overlap' is rendered exactly when the     *)
(* train split is available and similarityAvailable is true, whatever the   *)
(* pipeline selection and the eval split; its link targets the train split. *)
C4_ClassOverlap ==
    Loaded =>
        /\ Shown("Class Overlap") <=>
              (Available("train") /\ ValueOf(datasetInfo).similarityAvailable)
        /\ Shown("Class Overlap") =>
              SectionOf(view, "Class Overlap").to = SplitPath("train", "class_overlap")

C4_Witness ==
    /\ Loaded
    /\ Available("eval")
    /\ ~isPipelineSelected
    /\ view.explorationLink = Defined(SplitPath("eval", "prediction_overview"))
    /\ Shown("Class Overlap")

(* C5: in the loaded state 'Post-processing Analysis' is rendered exactly   *)
(* when a pipeline is selected, the eval split is available and             *)
(* postprocessingEditable is present, has an entry at the pipeline's index  *)
(* and that entry is true.                                                  *)
C5_Postprocessing ==
    Loaded =>
        (Shown("Post-processing Analysis") <=>
            /\ pipeline.pipelineIndex # undefined
            /\ Available("eval")
            /\ ValueOf(datasetInfo).postprocessingEditable # undefined
            /\ \E k \in DOMAIN ValueOf(ValueOf(datasetInfo).postprocessingEditable) :
                  /\ k = ValueOf(pipeline.pipelineIndex) + 1
                  /\ ValueOf(ValueOf(datasetInfo).postprocessingEditable)[k])

C5_Witness ==
    /\ Loaded
    /\ Available("eval")
    /\ pipeline.pipelineIndex = Defined(1)
    /\ ValueOf(datasetInfo).postprocessingEditable = Defined(<<TRUE>>)
    /\ ~Shown("Post-processing Analysis")
    /\ Shown("Smart Tag Analysis")

(* C6: 'Pipeline Metrics by Data Subpopulation' and 'Smart Tag Analysis'    *)
(* are each rendered in the loaded state exactly when a pipeline is         *)
(* selected, whatever the dataset info and the job config hold; in every    *)
(* state both are shown or both are hidden.                                 *)
C6_PipelineSections ==
    /\ Shown("Pipeline Metrics by Data Subpopulation") <=> Shown("Smart Tag Analysis")
    /\ Loaded =>
          /\ Shown("Pipeline Metrics by Data Subpopulation")
                <=> pipeline.pipelineIndex # undefined
          /\ Shown("Smart Tag Analysis") <=> pipeline.pipelineIndex # undefined

C6_Witness ==
    /\ Loaded
    /\ ~Available("eval")
    /\ ~ValueOf(datasetInfo).similarityAvailable
    /\ ~ValueOf(datasetInfo).perturbationTestingAvailable
    /\ ValueOf(datasetInfo).postprocessingEditable = undefined
    /\ configStatus = "rejected"
    /\ Shown("Pipeline Metrics by Data Subpopulation")
    /\ Shown("Smart Tag Analysis")

(* C7: a rendered 'Pipeline Metrics by Data Subpopulation' section carries  *)
(* the label 'Compare pipelines' exactly when job-config data is present    *)
(* with a pipelines list of more than one element, and no label (undefined) *)
(* otherwise, so none while the job config holds no data (pending, failed); *)
(* and an event of the job-config fetch changes nothing of the render       *)
(* decision but that label.                                                 *)
C7_LabelDecision ==
    Shown("Pipeline Metrics by Data Subpopulation") =>
        LET label == SectionOf(view, "Pipeline Metrics by Data Subpopulation").linkButtonText
            several == /\ config # undefined
                       /\ ValueOf(config).pipelines # undefined
                       /\ Len(ValueOf(ValueOf(config).pipelines)) > 1
        IN  /\ several => label = Defined("Compare pipelines")
            /\ ~several => label = undefined
            /\ (configStatus \in {"pending", "rejected"} /\ config = undefined)
                  => label = undefined

C7_ConfigGatesOnlyLabel ==
    UNCHANGED <<datasetInfo, error, isFetching, pipeline, searchString,
                pipelineMetricsSplit, smartTagsSplit>>
        => WithoutLabels(view') = WithoutLabels(view)

C7_CompareLabel ==
    [](C7_LabelDecision) /\ [][C7_ConfigGatesOnlyLabel]_vars

C7_Witness ==
    /\ Loaded
    /\ configStatus = "rejected"
    /\ config = undefined
    /\ Shown("Pipeline Metrics by Data Subpopulation")
    /\ SectionOf(view, "Pipeline Metrics by Data Subpopulation").linkButtonText = undefined

(* C8: in the loaded state 'Behavioral Testing' is rendered exactly when a  *)
(* pipeline is selected and perturbationTestingAvailable is true, whatever  *)
(* splits are available; its link has no split in the path.                 *)
C8_BehavioralTesting ==
    Loaded =>
        /\ Shown("Behavioral Testing") <=>
              /\ pipeline.pipelineIndex # undefined
              /\ ValueOf(datasetInfo).perturbationTestingAvailable
        /\ Shown("Behavioral Testing") =>
              SectionOf(view, "Behavioral Testing").to =
                  "/" \o jobId \o "/behavioral_testing_summary" \o searchString

C8_Witness ==
    /\ Loaded
    /\ ~Available("eval")
    /\ Available("train")
    /\ Shown("Behavioral Testing")

(* C9: the two split cells start at firstAvailableDatasetSplit when their   *)
(* sections are mounted; each rendered section's link targets its own       *)
(* cell; a split change made in one section leaves the other section's      *)
(* cell and link, the page's default split and the exploration link as      *)
(* they were.                                                               *)
C9_OwnSplitInLink ==
    /\ Shown("Pipeline Metrics by Data Subpopulation") =>
          SectionOf(view, "Pipeline Metrics by Data Subpopulation").to =
              SplitPath(Interpolate(pipelineMetricsSplit), "pipeline_metrics")
    /\ Shown("Smart Tag Analysis") =>
          SectionOf(view, "Smart Tag Analysis").to =
              SplitPath(Interpolate(smartTagsSplit), "smart_tags")

C9_StartAtDefault ==
    /\ (~Shown("Pipeline Metrics by Data Subpopulation")
            /\ Rendered(view', "Pipeline Metrics by Data Subpopulation"))
          => pipelineMetricsSplit' = firstAvailableDatasetSplit'
    /\ (~Shown("Smart Tag Analysis") /\ Rendered(view', "Smart Tag Analysis"))
          => smartTagsSplit' = firstAvailableDatasetSplit'

C9_OtherUntouched ==
    /\ SetPipelineMetricsSplit =>
          /\ smartTagsSplit' = smartTagsSplit
          /\ SectionOf(view', "Smart Tag Analysis") = SectionOf(view, "Smart Tag Analysis")
          /\ firstAvailableDatasetSplit' = firstAvailableDatasetSplit
          /\ view'.explorationLink = view.explorationLink
    /\ SetSmartTagsSplit =>
          /\ pipelineMetricsSplit' = pipelineMetricsSplit
          /\ SectionOf(view', "Pipeline Metrics by Data Subpopulation")
                = SectionOf(view, "Pipeline Metrics by Data Subpopulation")
          /\ firstAvailableDatasetSplit' = firstAvailableDatasetSplit
          /\ view'.explorationLink = view.explorationLink

C9_IsolatedSplitCells ==
    /\ [](C9_OwnSplitInLink)
    /\ [][C9_StartAtDefault]_vars
    /\ [][C9_OtherUntouched]_vars

C9_Witness ==
    /\ Loaded
    /\ pipelineMetricsSplit = Defined("train")
    /\ smartTagsSplit = Defined("eval")
    /\ SectionOf(view, "Pipeline Metrics by Data Subpopulation").to
          = SplitPath("train", "pipeline_metrics")
    /\ SectionOf(view, "Smart Tag Analysis").to = SplitPath("eval", "smart_tags")
    /\ view.explorationLink = Defined(SplitPath("eval", "prediction_overview"))

=============================================================================
